---- MODULE Spec2Model ----
(***************************************************************************)
(* A model of Melvin-python: the spectral Laplacian solver                 *)
(* (LaplacianSolver.py), the validated configuration (Parameters.py) and   *)
(* the checkpointing control loop of the convection driver (rbc.py).       *)
(*                                                                         *)
(* Real numbers are modelled as exact rationals <<num, den>> (den > 0,     *)
(* lowest terms); the results of an IEEE division by zero are <<1,0>>      *)
(* (inf), <<-1,0>> (-inf) and <<0,0>> (nan).  Python's None is << >>.      *)
(* Simulated time in the control loop is counted in integer ticks.         *)
(***************************************************************************)
EXTENDS Integers, Sequences, FiniteSets, TLC

VARIABLES
    \* ---- LaplacianSolver ----
    n_mat, m_mat,      \* the mode-number matrices handed to the constructor
    p_kn, p_km,        \* params.kn, params.km read by the constructor
    lap,               \* self.lap
    in_arr, out_arr,   \* the arrays of the latest solve call
    solve_calls,       \* number of solve calls that have returned
    \* ---- Parameters ----
    params,            \* the mapping given to Parameters(params, validate)
    validate,
    printed,           \* lines written to stdout by is_valid
    p_status,          \* "new", "exited", "raised" or "constructed"
    attrs,             \* attributes of the Parameters object
    \* ---- rbc.main ----
    pc,                \* position of main
    state,             \* the RunningState object
    int_dt,            \* the step size held by the Integrator
    w, dw, tmp, dtmp,  \* vorticity, temperature and their TimeDerivative histories
    psi, ux, uz,       \* stream function and velocities
    ke_tracker,        \* the kinetic-energy ScalarTracker
    files,             \* dump files on disk, by name
    statefiles,        \* RunningState files on disk, by dump index
    restarts,          \* number of times the program has been run again
    \* ---- history variables ----
    head,              \* state.t, loop_counter, the counters, w and tmp at the loop test
    fired,             \* guarded actions that fired in the current iteration
    trace,             \* statements executed in the current iteration
    fires,             \* loop_counter at the last two ke and cfl firings
    snap               \* in-memory fields and histories when each dump file was written

lapVars == <<n_mat, m_mat, p_kn, p_km, lap, in_arr, out_arr, solve_calls>>
parVars == <<params, validate, printed, p_status, attrs>>
fieldVars == <<w, dw, tmp, dtmp, psi, ux, uz>>
diskVars == <<files, statefiles, snap>>
mainVars == <<pc, state, int_dt, fieldVars, ke_tracker, diskVars, restarts,
              head, fired, trace, fires>>
vars == <<lapVars, parVars, mainVars>>

-----------------------------------------------------------------------------
(* Bounds of the model *)
NModesX == 2
NModesZ == 3
MaxSolves == 3
MaxRestarts == 1

-----------------------------------------------------------------------------
(* Exact arithmetic *)
Abs(x) == IF x < 0 THEN -x ELSE x
Sign(x) == IF x < 0 THEN -1 ELSE IF x > 0 THEN 1 ELSE 0

RECURSIVE GCD(_, _)
GCD(a, b) == IF b = 0 THEN a ELSE GCD(b, a % b)

None == << >>
R(num, den) ==
    IF den = 0 THEN <<Sign(num), 0>>
    ELSE LET g == GCD(Abs(num), Abs(den))
         IN  <<(Sign(den) * num) \div g, Abs(den) \div g>>
RInt(i) == <<i, 1>>
zero == RInt(0)
one == RInt(1)
IsFinite(x) == x # None /\ x[2] # 0
RNeg(x) == <<-x[1], x[2]>>
RAdd(x, y) == R(x[1] * y[2] + y[1] * x[2], x[2] * y[2])
RMul(x, y) == R(x[1] * y[1], x[2] * y[2])
RDiv(x, y) == R(x[1] * y[2], x[2] * y[1])
RLess(x, y) == x[1] * y[2] < y[1] * x[2]
RMin(x, y) == IF RLess(y, x) THEN y ELSE x
RSq(x) == RMul(x, x)

\* a complex coefficient is <<re, im>>; numpy divides and multiplies a complex
\* by a real componentwise
CDivR(c, x) == <<RDiv(c[1], x), RDiv(c[2], x)>>
CMulR(c, x) == <<RMul(c[1], x), RMul(c[2], x)>>
CIsFinite(c) == IsFinite(c[1]) /\ IsFinite(c[2])

-----------------------------------------------------------------------------
(* LaplacianSolver *)
Modes == (0 .. NModesX - 1) \X (0 .. NModesZ - 1)
Mode00 == <<0, 0>>

\* mode-number matrices: n varies along the first axis, m along the second;
\* the vertical index is either 0,1,2,.. or wraps to negative indices
ModeLayouts ==
    { [n |-> [k \in Modes |-> k[1]],
       m |-> [k \in Modes |-> IF wrap /\ 2 * k[2] > NModesZ THEN k[2] - NModesZ ELSE k[2]]]
      : wrap \in BOOLEAN }

Wavenumbers == {R(1, 1), R(1, 2), R(3, 1)}
Coeffs == {<<zero, zero>>, <<R(1, 1), R(-2, 1)>>, <<R(-1, 2), R(5, 1)>>}
InputArrays ==
    { [k \in Modes |-> IF k = h THEN c1 ELSE c2] : h \in Modes, c1 \in Coeffs, c2 \in Coeffs }
StaleCoeff == <<R(9, 1), R(9, 1)>>

\* self.lap = -((n*p.kn)**2 + (m*p.km)**2)
LaplacianMatrix(n, m, kn, km) ==
    [k \in Modes |-> RNeg(RAdd(RSq(RMul(RInt(n[k]), kn)), RSq(RMul(RInt(m[k]), km))))]

\* solve without the substitution of 1.0
solve_nosubst(lap0, a) ==
    LET out == [k \in Modes |-> CDivR(a[k], lap0[k])]
    IN  [lap |-> [lap0 EXCEPT ![Mode00] = zero], out |-> out]

\* solve without the restoring assignment
solve_norestore(lap0, a) ==
    LET lap1 == [lap0 EXCEPT ![Mode00] = one]
        out == [k \in Modes |-> CDivR(a[k], lap1[k])]
    IN  [lap |-> lap1, out |-> out]

\* solve(in_arr, out_arr): the operator and the output array after the call
solve(lap0, a) ==
    LET lap1 == [lap0 EXCEPT ![Mode00] = one]
        out == [k \in Modes |-> CDivR(a[k], lap1[k])]
        lap2 == [lap1 EXCEPT ![Mode00] = zero]
    IN  [lap |-> lap2, out |-> out]

LapInit ==
    /\ \E lay \in ModeLayouts :
          /\ n_mat = lay.n
          /\ m_mat = lay.m
    /\ p_kn \in Wavenumbers
    /\ p_km \in Wavenumbers
    /\ lap = LaplacianMatrix(n_mat, m_mat, p_kn, p_km)
    /\ in_arr = [k \in Modes |-> <<zero, zero>>]
    /\ out_arr = [k \in Modes |-> StaleCoeff]
    /\ solve_calls = 0

SolveCall ==
    /\ solve_calls < MaxSolves
    /\ \E a \in InputArrays :
          LET r == solve(lap, a)
          IN  /\ lap' = r.lap
              /\ out_arr' = r.out
              /\ in_arr' = a
    /\ solve_calls' = solve_calls + 1
    /\ UNCHANGED <<n_mat, m_mat, p_kn, p_km>>

-----------------------------------------------------------------------------
(* Parameters *)
required_params == <<"nx", "nz", "lx", "lz", "final_time">>
RequiredKeys == {required_params[i] : i \in DOMAIN required_params}
OptionalKeys == {"save_cadence", "dump_cadence", "initial_dt"}

\* np.pi, as a rational approximation
np_pi == R(355, 113)

\* the values a key of the input mapping may carry
KeyValues(key) ==
    CASE key = "nx" -> {RInt(10)}
      [] key = "nz" -> {RInt(7)}
      [] key = "lx" -> {RInt(2), zero}
      [] key = "lz" -> {RInt(4)}
      [] key = "final_time" -> {R(1, 10), RInt(2)}
      [] key = "save_cadence" -> {R(1, 100)}
      [] key = "dump_cadence" -> {RInt(10)}
      [] key = "initial_dt" -> {R(1, 1000)}

InputMappings ==
    { [k \in req \cup opt |->
          IF k = "lx" THEN lxv
          ELSE IF k = "final_time" THEN ftv
          ELSE CHOOSE v \in KeyValues(k) : TRUE]
      : req \in SUBSET RequiredKeys, opt \in SUBSET OptionalKeys,
        lxv \in KeyValues("lx"), ftv \in KeyValues("final_time") }

\* the class attributes, visible through every instance until overwritten
ClassDefaults ==
    [integrator_order |-> RInt(2),
     integrator |-> "explicit",
     spatial_derivative_order |-> RInt(2),
     alpha |-> R(51, 100),
     cfl_cutoff |-> R(1, 2),
     cfl_cadence |-> RInt(10),
     ke_cadence |-> RInt(100),
     save_cadence |-> RInt(100),
     load_from |-> None,
     nx |-> None, nz |-> None, lx |-> None, lz |-> None, final_time |-> None]

\* setattr(self, key, value)
setattr(a, key, value) ==
    [k \in DOMAIN a \cup {key} |-> IF k = key THEN value ELSE a[k]]

\* is_valid reporting only the first missing key
RECURSIVE is_valid_first(_, _)
is_valid_first(p, keys) ==
    IF keys = << >> THEN [valid |-> 1, out |-> << >>]
    ELSE IF Head(keys) \notin DOMAIN p
         THEN [valid |-> 0, out |-> << <<Head(keys), "missing from input parameters.">> >>]
         ELSE is_valid_first(p, Tail(keys))

\* is_valid(params): the loop over the keys still to be examined; the result
\* is int(valid) and the lines printed
RECURSIVE is_valid(_, _)
is_valid(p, keys) ==
    IF keys = << >> THEN [valid |-> 1, out |-> << >>]
    ELSE LET rest == is_valid(p, Tail(keys))
         IN  IF Head(keys) \notin DOMAIN p
             THEN [valid |-> 0,
                   out |-> << <<Head(keys), "missing from input parameters.">> >> \o rest.out]
             ELSE rest

\* load_from_dict(params): setattr for every key of the mapping
load_from_dict(a, p) ==
    [k \in DOMAIN a \cup DOMAIN p |-> IF k \in DOMAIN p THEN p[k] ELSE a[k]]

FloorDiv3(x) == RInt((x[1] - 1) \div 3)

\* the assignments of set_derived_params in program order, on the attributes
\* a left by load_from_dict: the attribute, whether the statement is skipped,
\* whether its right-hand side evaluates (it raises TypeError on None and
\* ZeroDivisionError otherwise), and the value
Assignments(a, p, keepDump) ==
    LET has(k) == a[k] # None
    IN  << [key |-> "dump_cadence", skip |-> keepDump /\ "dump_cadence" \in DOMAIN p,
            defined |-> has("final_time"),
            value |-> IF has("final_time") THEN RMul(R(1, 10), a.final_time) ELSE None],
           [key |-> "nn", skip |-> FALSE, defined |-> has("nx"),
            value |-> IF has("nx") THEN FloorDiv3(a.nx) ELSE None],
           [key |-> "nm", skip |-> FALSE, defined |-> has("nz"),
            value |-> IF has("nz") THEN FloorDiv3(a.nz) ELSE None],
           [key |-> "kn", skip |-> FALSE, defined |-> has("lx") /\ a.lx # zero,
            value |-> IF has("lx") THEN RDiv(RMul(RInt(2), np_pi), a.lx) ELSE None],
           [key |-> "km", skip |-> FALSE, defined |-> has("lz") /\ a.lz # zero,
            value |-> IF has("lz") THEN RDiv(RMul(RInt(2), np_pi), a.lz) ELSE None],
           [key |-> "dx", skip |-> FALSE, defined |-> has("lx") /\ has("nx") /\ a.nx # zero,
            value |-> IF has("lx") /\ has("nx") THEN RDiv(a.lx, a.nx) ELSE None],
           [key |-> "dz", skip |-> FALSE, defined |-> has("lz") /\ has("nz") /\ a.nz # zero,
            value |-> IF has("lz") /\ has("nz") THEN RDiv(a.lz, a.nz) ELSE None],
           [key |-> "initial_dt", skip |-> "initial_dt" \in DOMAIN p, defined |-> TRUE,
            value |-> IF has("lx") /\ has("nx") /\ has("lz") /\ has("nz")
                      THEN RMul(R(1, 5), RMin(RDiv(a.lx, a.nx), RDiv(a.lz, a.nz)))
                      ELSE None] >>

\* the attributes after the assignments asg, which stop at the first that
\* raises; ok tells whether all of them ran
RunAssignments(a, asg) ==
    LET raising == {i \in DOMAIN asg : ~asg[i].skip /\ ~asg[i].defined}
        stop == IF raising = {} THEN Len(asg) + 1
                ELSE CHOOSE i \in raising : \A j \in raising : i <= j
        ran == {i \in 1 .. stop - 1 : ~asg[i].skip}
    IN  [ok |-> raising = {},
         attrs |-> [k \in DOMAIN a \cup {asg[i].key : i \in ran} |->
                       IF \E i \in ran : asg[i].key = k
                       THEN asg[CHOOSE i \in ran : asg[i].key = k].value
                       ELSE a[k]]]

\* set_derived_params overriding a supplied dump_cadence
set_derived_params_always(a, p) == RunAssignments(a, Assignments(a, p, FALSE))

\* set_derived_params(params), on the attributes left by load_from_dict
set_derived_params(a, p) == RunAssignments(a, Assignments(a, p, TRUE))

ParInit ==
    /\ params \in InputMappings
    /\ validate \in BOOLEAN
    /\ printed = << >>
    /\ p_status = "new"
    /\ attrs = ClassDefaults

\* Parameters(params, validate): __init__ exits the process after a failed
\* validation
Parameters_exit ==
    /\ p_status = "new"
    /\ validate
    /\ LET v == is_valid(params, required_params)
       IN  /\ v.valid = 0
           /\ printed' = v.out
    /\ p_status' = "exited"
    /\ UNCHANGED <<params, validate, attrs>>

\* Parameters(params, validate): __init__ past the validation
Parameters_init ==
    /\ p_status = "new"
    /\ LET v == IF validate THEN is_valid(params, required_params)
                ELSE [valid |-> 1, out |-> << >>]
           loaded == load_from_dict(attrs, params)
           derived == set_derived_params(loaded, params)
       IN  /\ v.valid # 0
           /\ printed' = v.out
           /\ attrs' = derived.attrs
           /\ p_status' = IF derived.ok THEN "constructed" ELSE "raised"
    /\ UNCHANGED <<params, validate>>

-----------------------------------------------------------------------------
(* rbc.py: checkpoint files *)

\* the decimal digits of a natural number, most significant first
RECURSIVE Digits(_)
Digits(i) == IF i < 10 THEN <<i>> ELSE Append(Digits(i \div 10), i % 10)

RECURSIVE ZeroPad(_, _)
ZeroPad(ds, width) == IF Len(ds) >= width THEN ds ELSE ZeroPad(<<0>> \o ds, width)

\* form_dumpname(index): f'dump{index:04d}.npz'
form_dumpname(index) == <<"dump">> \o ZeroPad(Digits(index), 4) \o <<".npz">>

\* dump writing the vorticity history under both history names
dump_dw_twice(index, fs, w0, dw0, tmp0, dtmp0) ==
    setattr(fs, form_dumpname(index),
            [w |-> w0, dw |-> dw0.buf, tmp |-> tmp0, dtmp |-> dw0.buf,
             curr_idx |-> dw0.curr_idx])

\* dump(index, xp, data_trans, w, dw, tmp, dtmp): the files after np.savez
dump(index, fs, w0, dw0, tmp0, dtmp0) ==
    setattr(fs, form_dumpname(index),
            [w |-> w0, dw |-> dw0.buf, tmp |-> tmp0, dtmp |-> dtmp0.buf,
             curr_idx |-> dw0.curr_idx])

\* load setting the rotation index of the vorticity history only
load_one_idx(index, fs, w0, dw0, tmp0, dtmp0) ==
    LET dump_arrays == fs[form_dumpname(index)]
    IN  [w |-> dump_arrays.w,
         dw |-> [buf |-> dump_arrays.dw, curr_idx |-> dump_arrays.curr_idx],
         tmp |-> dump_arrays.tmp,
         dtmp |-> [buf |-> dump_arrays.dtmp, curr_idx |-> dtmp0.curr_idx]]

\* load(index, xp, w, dw, tmp, dtmp): the fields and histories after the call
load(index, fs, w0, dw0, tmp0, dtmp0) ==
    LET dump_arrays == fs[form_dumpname(index)]
    IN  [w |-> dump_arrays.w,
         dw |-> [buf |-> dump_arrays.dw, curr_idx |-> dump_arrays.curr_idx],
         tmp |-> dump_arrays.tmp,
         dtmp |-> [buf |-> dump_arrays.dtmp, curr_idx |-> dump_arrays.curr_idx]]

-----------------------------------------------------------------------------
(* Collaborators of main defined outside rbc.py, Parameters.py and          *)
(* LaplacianSolver.py, by their documented behaviour                       *)

\* RunningState(params): the clock at simulation start, or the clock saved
\* with the checkpoint being resumed
RunningState(a, sf) ==
    IF a.load_from # None THEN sf[a.load_from[1]]
    ELSE [t |-> zero, dt |-> a.initial_dt, loop_counter |-> 0,
          save_counter |-> zero, dump_counter |-> zero,
          ke_counter |-> zero, cfl_counter |-> zero, dump_index |-> 0]

\* TimeDerivative(params, xp): an empty history of integrator_order slots
TimeDerivative(a) ==
    [buf |-> [i \in 0 .. a.integrator_order[1] - 1 |-> None], curr_idx |-> 0]

\* dw[:] = value writes the current slot
SetCurrent(h, value) == [h EXCEPT !.buf[h.curr_idx] = value]

\* Integrator.integrate commits a step: the history's index rotates
Rotate(h) == [h EXCEPT !.curr_idx = (@ + 1) % Cardinality(DOMAIN h.buf)]

\* the step sizes Integrator.set_dt may return (all positive)
DtValues == {R(1, 2), one}

-----------------------------------------------------------------------------
(* rbc.py: main *)

\* the PARAMS mapping of main
MainMappings ==
    { [k \in {"nx", "nz", "lx", "lz", "final_time", "initial_dt", "save_cadence",
              "ke_cadence", "cfl_cadence"} \cup dk |->
          CASE k = "nx" -> RInt(10)
            [] k = "nz" -> RInt(7)
            [] k = "lx" -> RInt(2)
            [] k = "lz" -> RInt(4)
            [] k = "final_time" -> ft
            [] k = "initial_dt" -> idt
            [] k = "save_cadence" -> one
            [] k = "ke_cadence" -> RInt(kec)
            [] k = "cfl_cadence" -> RInt(cflc)
            [] k = "dump_cadence" -> R(3, 2)]
      : ft \in {RInt(3)}, idt \in DtValues, kec \in 1 .. 2, cflc \in 1 .. 3,
        dk \in {{}, {"dump_cadence"}} }

\* the statements of the loop body, in program order
StatementOrder_clock_first ==
    <<"save", "dump", "ke", "advance", "cfl", "solve", "mean", "vel", "int_w", "int_tmp">>

StatementOrder ==
    <<"save", "dump", "ke", "cfl", "solve", "mean", "vel", "int_w", "int_tmp", "advance">>

NextPc(p) ==
    LET i == CHOOSE j \in DOMAIN StatementOrder : StatementOrder[j] = p
    IN  IF i = Len(StatementOrder) THEN "while" ELSE StatementOrder[i + 1]

\* while state.t < params.final_time
Running_le == ~RLess(attrs.final_time, state.t)
Running == RLess(state.t, attrs.final_time)

\* the guards of the four periodic actions
SaveDue_strict == RLess(state.save_counter, state.t)
SaveDue == ~RLess(state.t, state.save_counter)
DumpDue == ~RLess(state.t, state.dump_counter)
KeDue_time == RLess(state.ke_counter, state.t)
KeDue == RLess(state.ke_counter, RInt(state.loop_counter))
CflDue == RLess(state.cfl_counter, RInt(state.loop_counter))

NoFires == [ke |-> <<-1, -1>>, cfl |-> <<-1, -1>>]
\* params = Parameters(PARAMS)
MainParameters ==
    /\ pc = "start"
    /\ Parameters_init
    /\ pc' = IF p_status' = "constructed" THEN "setup" ELSE "crashed"
    /\ UNCHANGED <<lapVars, state, int_dt, fieldVars, ke_tracker, diskVars, restarts,
                   head, fired, trace, fires>>

\* the construction of the run state, the integrator, the trackers and the
\* simulation variables
Setup ==
    /\ pc = "setup"
    /\ state' = RunningState(attrs, statefiles)
    /\ int_dt' = attrs.initial_dt
    /\ ke_tracker' = [data |-> << >>, saved |-> 0]
    /\ w' = <<0, zero>>
    /\ tmp' = <<0, zero, 1>>
    /\ dw' = TimeDerivative(attrs)
    /\ dtmp' = TimeDerivative(attrs)
    /\ psi' = None /\ ux' = None /\ uz' = None
    /\ pc' = "ic"
    /\ UNCHANGED <<lapVars, parVars, diskVars, restarts, head, fired, trace, fires>>

\* the initial conditions: the checkpoint named by load_from, or a zero
\* vorticity and a random temperature
InitialConditions ==
    /\ pc = "ic"
    /\ IF attrs.load_from # None
       THEN LET r == load(attrs.load_from[1], files, w, dw, tmp, dtmp)
            IN  /\ w' = r.w /\ dw' = r.dw /\ tmp' = r.tmp /\ dtmp' = r.dtmp
                /\ int_dt' = state.dt
       ELSE /\ w' = <<0, zero>>
            /\ tmp' = <<1, zero, 0>>
            /\ UNCHANGED <<dw, dtmp, int_dt>>
    /\ pc' = "while"
    /\ UNCHANGED <<lapVars, parVars, state, psi, ux, uz, ke_tracker, diskVars, restarts,
                   head, fired, trace, fires>>

\* the loop test
LoopTest ==
    /\ pc = "while"
    /\ IF Running
       THEN /\ pc' = StatementOrder[1]
            /\ head' = [t |-> state.t, loop_counter |-> state.loop_counter,
                        save_counter |-> state.save_counter,
                        dump_counter |-> state.dump_counter,
                        ke_counter |-> state.ke_counter,
                        cfl_counter |-> state.cfl_counter,
                        dump_index |-> state.dump_index, dt |-> state.dt,
                        w |-> w, tmp |-> tmp]
            /\ fired' = {}
            /\ trace' = << >>
       ELSE /\ pc' = "done"
            /\ UNCHANGED <<head, fired, trace>>
    /\ UNCHANGED <<lapVars, parVars, state, int_dt, fieldVars, ke_tracker, diskVars, restarts, fires>>

\* if state.save_counter <= state.t: report progress, save the tracker
SaveStep ==
    /\ pc = "save"
    /\ IF SaveDue
       THEN /\ state' = [state EXCEPT !.save_counter = RAdd(@, attrs.save_cadence)]
            /\ ke_tracker' = [ke_tracker EXCEPT !.saved = Len(ke_tracker.data)]
            /\ fired' = fired \cup {"save"}
       ELSE UNCHANGED <<state, ke_tracker, fired>>
    /\ pc' = NextPc("save")
    /\ trace' = Append(trace, "save")
    /\ UNCHANGED <<lapVars, parVars, int_dt, fieldVars, diskVars, restarts, head, fires>>

\* if state.dump_counter <= state.t: write the checkpoint and the run state
DumpStep ==
    /\ pc = "dump"
    /\ IF DumpDue
       THEN LET s1 == [state EXCEPT !.dump_counter = RAdd(@, attrs.dump_cadence)]
            IN  /\ files' = dump(s1.dump_index, files, w, dw, tmp, dtmp)
                /\ statefiles' = setattr(statefiles, s1.dump_index, s1)
                /\ state' = [s1 EXCEPT !.dump_index = @ + 1]
                /\ snap' = setattr(snap, form_dumpname(s1.dump_index),
                                   [w |-> w, dw |-> dw, tmp |-> tmp, dtmp |-> dtmp])
                /\ fired' = fired \cup {"dump"}
       ELSE UNCHANGED <<state, diskVars, fired>>
    /\ pc' = NextPc("dump")
    /\ trace' = Append(trace, "dump")
    /\ UNCHANGED <<lapVars, parVars, int_dt, fieldVars, ke_tracker, restarts, head, fires>>

\* if state.ke_counter < state.loop_counter: record the diagnostics
KeStep ==
    /\ pc = "ke"
    /\ IF KeDue
       THEN /\ state' = [state EXCEPT !.ke_counter = RAdd(@, attrs.ke_cadence)]
            /\ ke_tracker' = [ke_tracker EXCEPT !.data = Append(@, state.t)]
            /\ fired' = fired \cup {"ke"}
            /\ fires' = [fires EXCEPT !.ke = <<@[2], state.loop_counter>>]
       ELSE UNCHANGED <<state, ke_tracker, fired, fires>>
    /\ pc' = NextPc("ke")
    /\ trace' = Append(trace, "ke")
    /\ UNCHANGED <<lapVars, parVars, int_dt, fieldVars, diskVars, restarts, head>>

\* if state.cfl_counter < state.loop_counter: adapt the timestep
CflStep ==
    /\ pc = "cfl"
    /\ IF CflDue
       THEN \E d \in DtValues :
               /\ state' = [state EXCEPT !.cfl_counter = RAdd(@, attrs.cfl_cadence),
                                         !.dt = d]
               /\ int_dt' = d
               /\ fired' = fired \cup {"cfl"}
               /\ fires' = [fires EXCEPT !.cfl = <<@[2], state.loop_counter>>]
       ELSE UNCHANGED <<state, int_dt, fired, fires>>
    /\ pc' = NextPc("cfl")
    /\ trace' = Append(trace, "cfl")
    /\ UNCHANGED <<lapVars, parVars, fieldVars, ke_tracker, diskVars, restarts, head>>

\* psi.set_as_laplacian_soln(-w.gets())
SolveStep ==
    /\ pc = "solve"
    /\ psi' = w
    /\ pc' = NextPc("solve")
    /\ trace' = Append(trace, "solve")
    /\ UNCHANGED <<lapVars, parVars, state, int_dt, w, dw, tmp, dtmp, ux, uz, ke_tracker, diskVars,
                   restarts, head, fired, fires>>

\* tmp[:,0] = 0.0
MeanStep ==
    /\ pc = "mean"
    /\ tmp' = [tmp EXCEPT ![3] = 1]
    /\ pc' = NextPc("mean")
    /\ trace' = Append(trace, "mean")
    /\ UNCHANGED <<lapVars, parVars, state, int_dt, w, dw, dtmp, psi, ux, uz, ke_tracker, diskVars,
                   restarts, head, fired, fires>>

\* ux[:] = -psi.sddz(); uz[:] = psi.sddx(); both to physical space
VelStep ==
    /\ pc = "vel"
    /\ ux' = psi
    /\ uz' = psi
    /\ pc' = NextPc("vel")
    /\ trace' = Append(trace, "vel")
    /\ UNCHANGED <<lapVars, parVars, state, int_dt, w, dw, tmp, dtmp, psi, ke_tracker, diskVars,
                   restarts, head, fired, fires>>

\* dw[:] = ...; integrator.integrate(w, dw, lin_op)
IntegrateW ==
    /\ pc = "int_w"
    /\ dw' = Rotate(SetCurrent(dw, <<w, ux, uz, tmp>>))
    /\ w' = <<w[1] + 1, int_dt>>
    /\ pc' = NextPc("int_w")
    /\ trace' = Append(trace, "int_w")
    /\ UNCHANGED <<lapVars, parVars, state, int_dt, tmp, dtmp, psi, ux, uz, ke_tracker, diskVars,
                   restarts, head, fired, fires>>

\* dtmp[:] = ...; integrator.integrate(tmp, dtmp, lin_op)
IntegrateTmp ==
    /\ pc = "int_tmp"
    /\ dtmp' = Rotate(SetCurrent(dtmp, <<tmp, ux, uz>>))
    /\ tmp' = <<tmp[1] + 1, int_dt, 0>>
    /\ pc' = NextPc("int_tmp")
    /\ trace' = Append(trace, "int_tmp")
    /\ UNCHANGED <<lapVars, parVars, state, int_dt, w, dw, psi, ux, uz, ke_tracker, diskVars,
                   restarts, head, fired, fires>>

\* state.t += state.dt; state.loop_counter += 1
ClockStep ==
    /\ pc = "advance"
    /\ state' = [state EXCEPT !.t = RAdd(@, state.dt), !.loop_counter = @ + 1]
    /\ pc' = NextPc("advance")
    /\ trace' = Append(trace, "advance")
    /\ UNCHANGED <<lapVars, parVars, int_dt, fieldVars, ke_tracker, diskVars, restarts, head, fired, fires>>

\* the program is run again with load_from naming a checkpoint on disk
Restart ==
    /\ pc = "done"
    /\ restarts < MaxRestarts
    /\ \E k \in DOMAIN statefiles :
          params' = setattr(params, "load_from", RInt(k))
    /\ p_status' = "new"
    /\ attrs' = ClassDefaults
    /\ printed' = << >>
    /\ restarts' = restarts + 1
    /\ pc' = "start"
    /\ state' = None /\ int_dt' = None
    /\ w' = None /\ dw' = None /\ tmp' = None /\ dtmp' = None
    /\ psi' = None /\ ux' = None /\ uz' = None
    /\ ke_tracker' = None
    /\ head' = None /\ fired' = {} /\ trace' = << >> /\ fires' = NoFires
    /\ UNCHANGED <<lapVars, validate, diskVars>>

-----------------------------------------------------------------------------
(* Specifications *)

\* the solver alone: construction, then any sequence of solve calls
InitLap ==
    /\ LapInit
    /\ params = << >> /\ validate = TRUE /\ printed = << >>
    /\ p_status = "idle" /\ attrs = << >>
    /\ pc = "idle" /\ state = None /\ int_dt = None
    /\ w = None /\ dw = None /\ tmp = None /\ dtmp = None
    /\ psi = None /\ ux = None /\ uz = None /\ ke_tracker = None
    /\ files = << >> /\ statefiles = << >> /\ snap = << >> /\ restarts = 0
    /\ head = None /\ fired = {} /\ trace = << >> /\ fires = NoFires

Solve == SolveCall /\ UNCHANGED <<parVars, mainVars>>

SpecLap == InitLap /\ [][Solve]_vars

\* the construction of a Parameters object from any input mapping
InitParams ==
    /\ ParInit
    /\ n_mat = << >> /\ m_mat = << >> /\ p_kn = None /\ p_km = None
    /\ lap = << >> /\ in_arr = << >> /\ out_arr = << >> /\ solve_calls = 0
    /\ pc = "idle" /\ state = None /\ int_dt = None
    /\ w = None /\ dw = None /\ tmp = None /\ dtmp = None
    /\ psi = None /\ ux = None /\ uz = None /\ ke_tracker = None
    /\ files = << >> /\ statefiles = << >> /\ snap = << >> /\ restarts = 0
    /\ head = None /\ fired = {} /\ trace = << >> /\ fires = NoFires

ConstructExit == Parameters_exit /\ UNCHANGED <<lapVars, mainVars>>
Construct == Parameters_init /\ UNCHANGED <<lapVars, mainVars>>

SpecParams == InitParams /\ [][ConstructExit \/ Construct]_vars

\* the driver: main from its first statement, run again from its checkpoints
InitMain ==
    /\ params \in MainMappings
    /\ validate = TRUE /\ printed = << >> /\ p_status = "new" /\ attrs = ClassDefaults
    /\ n_mat = << >> /\ m_mat = << >> /\ p_kn = None /\ p_km = None
    /\ lap = << >> /\ in_arr = << >> /\ out_arr = << >> /\ solve_calls = 0
    /\ pc = "start" /\ state = None /\ int_dt = None
    /\ w = None /\ dw = None /\ tmp = None /\ dtmp = None
    /\ psi = None /\ ux = None /\ uz = None /\ ke_tracker = None
    /\ files = << >> /\ statefiles = << >> /\ snap = << >> /\ restarts = 0
    /\ head = None /\ fired = {} /\ trace = << >> /\ fires = NoFires

StartStep ==
    \/ MainParameters
    \/ Setup
    \/ InitialConditions

LoopStep ==
    \/ LoopTest
    \/ SaveStep
    \/ DumpStep
    \/ KeStep
    \/ CflStep
    \/ SolveStep
    \/ MeanStep
    \/ VelStep
    \/ IntegrateW
    \/ IntegrateTmp
    \/ ClockStep

NextMain == StartStep \/ LoopStep \/ Restart

SpecMain == InitMain /\ [][NextMain]_vars

\* one run of main, in which the interpreter keeps executing the statements of
\* the loop it has entered
NextRun == StartStep \/ LoopStep

SpecMainFair == InitMain /\ [][NextRun]_vars /\ WF_vars(LoopStep)

-----------------------------------------------------------------------------
(* LaplacianSolver: properties *)

\* C1: the stored operator's (0,0) entry is 0.0 before and after every solve
\* call, whatever the sequence of calls and inputs
LapZeroModeRestored == lap[Mode00] = zero

LapZeroModeRestoredWitness ==
    /\ solve_calls >= 2
    /\ in_arr[Mode00] # <<zero, zero>>
    /\ lap[Mode00] = zero

\* lap[k] as the specification states it, from the mode numbers
LapOf(k) ==
    RNeg(RAdd(RSq(RMul(RInt(n_mat[k]), p_kn)), RSq(RMul(RInt(m_mat[k]), p_km))))

\* C2: solve overwrites the whole output: the (0,0) output is the (0,0) input,
\* every other output is the finite quotient in/lap, which multiplied by lap
\* gives the input back, and no divisor is zero
SolveDividesByLap ==
    solve_calls > 0 =>
        /\ out_arr[Mode00] = in_arr[Mode00]
        /\ \A k \in Modes \ {Mode00} :
              /\ LapOf(k) # zero
              /\ CIsFinite(out_arr[k])
              /\ out_arr[k] = CDivR(in_arr[k], LapOf(k))
              /\ CMulR(out_arr[k], LapOf(k)) = in_arr[k]

SolveDividesByLapWitness ==
    /\ solve_calls > 0
    /\ in_arr[Mode00] # <<zero, zero>>
    /\ \E k \in Modes \ {Mode00} : out_arr[k] # in_arr[k] /\ in_arr[k] # <<zero, zero>>

-----------------------------------------------------------------------------
(* Parameters: properties *)
MissingKeys == RequiredKeys \ DOMAIN params
ReportedKeys == {printed[i][1] : i \in DOMAIN printed}

\* C3: a validated construction from a mapping lacking required keys exits
\* before any option is loaded or derived, having reported every missing key;
\* with every required key present nothing is reported and construction goes on
MissingKeysAllReported ==
    (p_status # "new" /\ validate) =>
        /\ MissingKeys # {} =>
              /\ p_status = "exited"
              /\ attrs = ClassDefaults
              /\ ReportedKeys = MissingKeys
              /\ Len(printed) = Cardinality(MissingKeys)
        /\ MissingKeys = {} =>
              /\ p_status \in {"constructed", "raised"}
              /\ printed = << >>
              /\ \A k \in DOMAIN params : attrs[k] = params[k]

MissingKeysAllReportedWitness ==
    /\ p_status = "exited"
    /\ Cardinality(MissingKeys) >= 2
    /\ Len(printed) >= 2

CadenceOf(key) ==
    IF key \in DOMAIN params THEN params[key] ELSE RMul(R(1, 10), params["final_time"])

\* C4 as stated: both cadences default to 0.1*final_time
BothCadencesDefaultToTenth ==
    p_status = "constructed" =>
        /\ attrs["save_cadence"] = CadenceOf("save_cadence")
        /\ attrs["dump_cadence"] = CadenceOf("dump_cadence")

\* C4 amended: dump_cadence is the supplied value or 0.1*final_time when
\* omitted; save_cadence is the supplied value or the class default 100
CadenceDefaults ==
    p_status = "constructed" =>
        /\ attrs["dump_cadence"] = CadenceOf("dump_cadence")
        /\ attrs["save_cadence"] =
              IF "save_cadence" \in DOMAIN params THEN params["save_cadence"] ELSE RInt(100)

CadenceDefaultsWitness ==
    /\ p_status = "constructed"
    /\ "dump_cadence" \notin DOMAIN params
    /\ "save_cadence" \notin DOMAIN params
    /\ attrs["dump_cadence"] = R(1, 5)


-----------------------------------------------------------------------------
(* rbc.py: properties *)
LoopPcs == {StatementOrder[i] : i \in DOMAIN StatementOrder}
InLoop == pc \in LoopPcs
JustLoaded == pc = "while" /\ head = None /\ attrs.load_from # None
LoadedName == form_dumpname(attrs.load_from[1])
RLeq(x, y) == ~RLess(y, x)
IsPrefix(s1, s2) == Len(s1) <= Len(s2) /\ SubSeq(s2, 1, Len(s1)) = s1

\* C5: right after load(k) the fields, both history buffers and both rotation
\* indices are what they were in memory when dump(k) wrote the checkpoint
CheckpointRoundTrip ==
    JustLoaded =>
        LET s == snap[LoadedName]
        IN  /\ w = s.w
            /\ tmp = s.tmp
            /\ dw.buf = s.dw.buf
            /\ dtmp.buf = s.dtmp.buf
            /\ dw.curr_idx = s.dw.curr_idx
            /\ dtmp.curr_idx = s.dtmp.curr_idx

CheckpointRoundTripWitness ==
    /\ JustLoaded
    /\ w[1] > 0
    /\ dw.curr_idx = 1
    /\ dtmp.buf[0] # None
    /\ dtmp.buf # dw.buf

GuardsFired(stepReached(_, _)) ==
    (InLoop /\ {"save", "dump", "ke", "cfl"} \subseteq {trace[i] : i \in DOMAIN trace}) =>
        /\ "save" \in fired <=> RLeq(head.save_counter, head.t)
        /\ "dump" \in fired <=> RLeq(head.dump_counter, head.t)
        /\ "ke" \in fired <=> stepReached(head.ke_counter, RInt(head.loop_counter))
        /\ "cfl" \in fired <=> stepReached(head.cfl_counter, RInt(head.loop_counter))
        /\ state.save_counter =
              IF "save" \in fired THEN RAdd(head.save_counter, attrs.save_cadence)
              ELSE head.save_counter
        /\ state.dump_counter =
              IF "dump" \in fired THEN RAdd(head.dump_counter, attrs.dump_cadence)
              ELSE head.dump_counter
        /\ state.ke_counter =
              IF "ke" \in fired THEN RAdd(head.ke_counter, attrs.ke_cadence)
              ELSE head.ke_counter
        /\ state.cfl_counter =
              IF "cfl" \in fired THEN RAdd(head.cfl_counter, attrs.cfl_cadence)
              ELSE head.cfl_counter

\* C7 as stated: ke and cfl fire iff their counter <= loop_counter
GuardsFireWhenReached == GuardsFired(RLeq)

\* C7 amended: save and dump fire iff their counter <= t, ke and cfl fire iff
\* their counter < loop_counter; a fired action advances its counter once
GuardsFireAsCoded == GuardsFired(RLess)

GuardsFireAsCodedWitness ==
    /\ pc = "solve"
    /\ fired = {"save", "dump", "ke", "cfl"}

\* C9: in a run from loop_counter = 0, consecutive firings of the ke action
\* (of the cfl action) are exactly ke_cadence (cfl_cadence) iterations apart,
\* the first at iteration 1, and no firing is skipped
StepCadence ==
    ((InLoop \/ pc \in {"while", "done"}) /\ attrs.load_from = None) =>
        \A a \in {"ke", "cfl"} :
            LET c == IF a = "ke" THEN attrs.ke_cadence[1] ELSE attrs.cfl_cadence[1]
                f == fires[a]
            IN  /\ f[1] # -1 => f[2] - f[1] = c
                /\ f[2] = -1 => state.loop_counter <= 1
                /\ f[2] # -1 => state.loop_counter - f[2] <= c

StepCadenceWitness ==
    /\ pc = "done"
    /\ attrs.load_from = None
    /\ fires.cfl[1] # -1
    /\ fires.cfl[2] - fires.cfl[1] = 3
    /\ fires.ke[1] # -1
    /\ fires.ke[2] - fires.ke[1] = 2
    /\ \E i \in DOMAIN ke_tracker.data : ke_tracker.data[i] \notin {RInt(k) : k \in 0 .. 9}

\* C8: load gives both histories the one stored index, and at every
\* checkpoint write the two histories hold the same index, the one stored
HistoriesShareIndex ==
    /\ JustLoaded =>
          /\ dw.curr_idx = files[LoadedName].curr_idx
          /\ dtmp.curr_idx = files[LoadedName].curr_idx
    /\ pc = "dump" => dw.curr_idx = dtmp.curr_idx
    /\ (InLoop /\ "dump" \in fired) =>
          /\ files[form_dumpname(head.dump_index)].curr_idx = snap[form_dumpname(head.dump_index)].dw.curr_idx
          /\ files[form_dumpname(head.dump_index)].curr_idx = snap[form_dumpname(head.dump_index)].dtmp.curr_idx

HistoriesShareIndexWitness ==
    /\ JustLoaded
    /\ files[LoadedName].curr_idx = 1
    /\ dtmp.curr_idx = 1

ExpectedOrder ==
    <<"save", "dump", "ke", "cfl", "solve", "mean", "vel", "int_w", "int_tmp", "advance">>

\* C10: in every iteration the guarded actions precede the physics step
\* (solve, mean removal, velocities, vorticity integrate, temperature
\* integrate, each on the results of the one before), the clock advances last
\* and once, t by the dt left by that iteration's CFL update and loop_counter
\* by 1, and a checkpoint of the iteration holds the fields of the loop test
IterationOrder ==
    /\ [](InLoop => IsPrefix(trace, ExpectedOrder))
    /\ [](pc = "int_w" => (psi = w /\ ux = psi /\ uz = psi /\ tmp[3] = 1 /\ w = head.w))
    /\ [](pc = "int_tmp" =>
            (ux = psi /\ uz = psi /\ tmp[3] = 1 /\ w[1] = head.w[1] + 1 /\ tmp[1] = head.tmp[1]))
    /\ [](pc = "advance" =>
            /\ w[1] = head.w[1] + 1
            /\ tmp[1] = head.tmp[1] + 1
            /\ state.t = head.t
            /\ state.loop_counter = head.loop_counter)
    /\ []((pc = "while" /\ head # None) =>
            /\ state.t = RAdd(head.t, state.dt)
            /\ state.loop_counter = head.loop_counter + 1)
    /\ [][(InLoop /\ (state'.t # state.t \/ state'.loop_counter # state.loop_counter)) =>
            /\ pc = "advance"
            /\ state'.t = RAdd(state.t, state.dt)
            /\ state'.loop_counter = state.loop_counter + 1]_vars
    /\ []((InLoop /\ "dump" \in fired) =>
            /\ files[form_dumpname(head.dump_index)].w = head.w
            /\ files[form_dumpname(head.dump_index)].tmp = head.tmp)

IterationOrderWitness ==
    /\ pc = "while"
    /\ head # None
    /\ Len(trace) = 10
    /\ {"cfl", "dump"} \subseteq fired
    /\ state.dt # head.dt
    /\ files[form_dumpname(head.dump_index)].w # w

====
